---- MODULE Spec2Model ----
(***************************************************************************)
(* Verification model of the CanLII legislation scraper                    *)
(* (canada_law_scrapper.py and the variants kept beside it).               *)
(*                                                                         *)
(* The specifications of this module:                                      *)
(*   Spec, SpecCrash,   the crawl with its resumable tracking store: the   *)
(*   SpecNoFail         completion ledger in memory and on disk, the skip  *)
(*                      ledger, the artifact store and the browser page,   *)
(*                      with all failures, with stops only, without both;  *)
(*   SpecRecovery       the recovery from a challenge                      *)
(*                      (solve_captcha_automatically,                      *)
(*                      handle_captcha_interruption);                      *)
(*   SpecClassify       the page classifiers on every small page.          *)
(***************************************************************************)
EXTENDS Integers, Sequences, FiniteSets, TLC

(***************************************************************************)
(* Program constants                                                       *)
(***************************************************************************)
BASE_URL == "https://www.canlii.org"
START_URL == "https://www.canlii.org/ca"
FilenameLimit == 150

\* The category page the crawl is working on (main, line 2013).
category_url == BASE_URL \o "/ca/laws/stat"

(***************************************************************************)
(* Bounds of the model                                                     *)
(***************************************************************************)
\* Longest list (processed_documents, processed_keys) of a ledger file that
\* exists before the first run.
MaxInitEntries == 1

(***************************************************************************)
(* Strings                                                                 *)
(***************************************************************************)
Min(a, b) == IF a < b THEN a ELSE b

\* The characters re.sub(r'[<>:"/\\|?*]', '_', filename) replaces.
InvalidFilenameChars == {"<", ">", ":", "\"", "/", "\\", "|", "?", "*"}

RECURSIVE sanitize_filename(_)
sanitize_filename(filename) ==
    IF Len(filename) = 0 THEN ""
    ELSE LET c == SubSeq(filename, 1, 1)
         IN (IF c \in InvalidFilenameChars THEN "_" ELSE c)
              \o sanitize_filename(SubSeq(filename, 2, Len(filename)))

\* s[:n]
Truncate(s, n) == SubSeq(s, 1, Min(Len(s), n))

\* safe_filename and s3_key of process_legislation_document.
s3_key_of(citation, title) ==
    (IF citation # ""
       THEN sanitize_filename(Truncate(citation \o "_" \o title, FilenameLimit))
       ELSE sanitize_filename(Truncate(title, FilenameLimit))) \o ".pdf"

\* doc_key = f"{prefix}_{href}" (canada_law_scrapper.py)
doc_key_href_only(prefix, href) == href

doc_key(prefix, href) == prefix \o "_" \o href

\* doc_key = href (legislation_links.py, "use href only to avoid duplicates
\* across categories")
doc_key_legislation_links(prefix, href) == href

(***************************************************************************)
(* The listing: what extract_row_data returns for the rows of the          *)
(* category page.  "/a" is listed as a main document and as the enabling   *)
(* statute of "/r"; the page of "/r" carries a "repealed" warning banner;  *)
(* "/c" is marked repealed in the list itself.                             *)
(***************************************************************************)
items_to_process ==
    << [main |-> [href |-> "/a", title |-> "Act: A", citation |-> "SC 1", is_repealed |-> FALSE],
        sub_items |-> << [href |-> "/b", title |-> "Reg B", citation |-> "", type |-> "sub_item"] >>],
       [main |-> [href |-> "/r", title |-> "Reg R", citation |-> "SOR 2", is_repealed |-> FALSE],
        sub_items |-> << [href |-> "/a", title |-> "Act: A", citation |-> "SC 1", type |-> "enabling_statute"] >>],
       [main |-> [href |-> "/c", title |-> "Act C", citation |-> "SC 3", is_repealed |-> TRUE],
        sub_items |-> << >>] >>

\* The text of "#warnings .warning" on a document page ("" when absent).
warning_text_of(href) == IF href = "/r" THEN "This regulation was Repealed" ELSE ""

\* any(x in warning_lower for x in ["repealed", "spent", "not in force"])
NotInForceText(text) == text = "This regulation was Repealed"

\* The document the crawl is at: sub = 0 is the row's main document.
DocAt(r, s) ==
    IF s = 0
      THEN [href |-> items_to_process[r].main.href, title |-> items_to_process[r].main.title,
            citation |-> items_to_process[r].main.citation, prefix |-> "main"]
      ELSE LET it == items_to_process[r].sub_items[s]
           IN [href |-> it.href, title |-> it.title, citation |-> it.citation, prefix |-> it.type]

\* Every document reference of the listing.
Docs ==
    UNION { { DocAt(r, s) : s \in 0..Len(items_to_process[r].sub_items) } :
            r \in DOMAIN items_to_process }

(***************************************************************************)
(* The completion ledger (ResumableTrackingStore)                          *)
(*                                                                         *)
(* A ledger is a Python dict: a function whose domain is a subset of       *)
(* {"processed_documents", "processed_keys"}.  A list element is a record; *)
(* isstr tells a bare key string from a document object.                   *)
(***************************************************************************)
Get(d, k, default) == IF k \in DOMAIN d THEN d[k] ELSE default

StrEntry(k) == [isstr |-> TRUE, key |-> k, href |-> "", s3_key |-> ""]

DocInfo(key, href, s3key) == [isstr |-> FALSE, key |-> key, href |-> href, s3_key |-> s3key]

\* {"processed_documents": [], "processed_keys": []}
EmptyLedger == [k \in {"processed_documents", "processed_keys"} |-> << >>]

\* The ledger of a process that is not running.
NoData == << >>

AbsentFile == [kind |-> "absent", data |-> NoData]
\* A file json.load cannot parse: empty or cut short.
TornFile == [kind |-> "torn", data |-> NoData]
JsonFile(d) == [kind |-> "json", data |-> d]

load_tracking_data(f) ==
    IF f.kind = "absent" THEN EmptyLedger
    ELSE IF f.kind = "torn" THEN EmptyLedger
    ELSE LET data == f.data
             pd == Get(data, "processed_documents", << >>)
         IN IF pd # << >> /\ pd[1].isstr
              THEN [k \in DOMAIN data \cup {"processed_keys"} |->
                       IF k = "processed_keys" THEN pd
                       ELSE IF k = "processed_documents" THEN << >>
                       ELSE data[k]]
              ELSE data

is_already_processed(tracking, document_key) ==
    LET pk == Get(tracking, "processed_keys", << >>)
        pd == Get(tracking, "processed_documents", << >>)
    IN \/ \E i \in DOMAIN pk : pk[i].isstr /\ pk[i].key = document_key
       \/ \E i \in DOMAIN pd : ~pd[i].isstr /\ pd[i].key = document_key

\* mark_as_processed without its is_already_processed guard.
mark_unguarded(tracking, doc_info) ==
    [k \in DOMAIN tracking \cup {"processed_documents"} |->
        IF k = "processed_documents"
          THEN Append(Get(tracking, "processed_documents", << >>), doc_info)
          ELSE tracking[k]]

\* mark_as_processed that assigns the list instead of appending to it.
mark_overwrites(tracking, doc_info) ==
    IF ~is_already_processed(tracking, doc_info.key)
      THEN [k \in DOMAIN tracking \cup {"processed_documents"} |->
               IF k = "processed_documents" THEN << doc_info >> ELSE tracking[k]]
      ELSE tracking

\* The in-memory effect of mark_as_processed.
mark_as_processed(tracking, doc_info) ==
    IF ~is_already_processed(tracking, doc_info.key)
      THEN [k \in DOMAIN tracking \cup {"processed_documents"} |->
               IF k = "processed_documents"
                 THEN Append(Get(tracking, "processed_documents", << >>), doc_info)
                 ELSE tracking[k]]
      ELSE tracking

\* save_tracking_data called before the append: the newest entry is not written.
save_before_append(tracking) ==
    JsonFile([k \in DOMAIN tracking |->
                 IF k = "processed_documents" /\ tracking[k] # << >>
                   THEN SubSeq(tracking[k], 1, Len(tracking[k]) - 1)
                   ELSE tracking[k]])

\* What json.dump leaves in TRACKING_FILE when it succeeds.
save_tracking_data(tracking) == JsonFile(tracking)

\* The keys a ledger reports complete.
CompleteKeys(tracking) ==
    LET pk == Get(tracking, "processed_keys", << >>)
        pd == Get(tracking, "processed_documents", << >>)
    IN { pk[i].key : i \in { j \in DOMAIN pk : pk[j].isstr } } \cup
       { pd[i].key : i \in { j \in DOMAIN pd : ~pd[j].isstr } }

\* The keys a restart would report complete.
PersistedKeys(f) == CompleteKeys(load_tracking_data(f))

\* Number of processed_documents entries for a key.
EntriesFor(tracking, key) ==
    LET pd == Get(tracking, "processed_documents", << >>)
    IN Cardinality({ i \in DOMAIN pd : pd[i].key = key })

(***************************************************************************)
(* The skip ledger (SKIPPED_FILE)                                          *)
(***************************************************************************)
\* load_skipped_data: the skipped_documents list of the file.
load_skipped_data(f) == IF f.kind = "json" THEN f.data ELSE << >>

\* save_skipped_document that writes the href without the reason.
save_skipped_no_reason(f, doc_info) ==
    LET skipped == load_skipped_data(f)
    IN IF \E i \in DOMAIN skipped : skipped[i].href = doc_info.href
         THEN f
         ELSE JsonFile(Append(skipped, [href |-> doc_info.href, reason |-> ""]))

\* save_skipped_document without the test on existing_hrefs.
save_skipped_again(f, doc_info) == JsonFile(Append(load_skipped_data(f), doc_info))

\* What save_skipped_document leaves in SKIPPED_FILE when nothing raises.
save_skipped_document(f, doc_info) ==
    LET skipped == load_skipped_data(f)
    IN IF \E i \in DOMAIN skipped : skipped[i].href = doc_info.href
         THEN f
         ELSE JsonFile(Append(skipped, doc_info))

(***************************************************************************)
(* Ledger files that may exist before the first run: none, an unreadable   *)
(* one, the current format (document objects, optional processed_keys) and *)
(* the legacy format (a flat list of key strings).                         *)
(***************************************************************************)
InitKeyPool == {"main_/a", "main_/t/on/xyz"}

InitDocInfo(k) ==
    IF k = "main_/a" THEN DocInfo(k, "/a", s3_key_of("SC 1", "Act: A"))
    ELSE DocInfo(k, "/t/on/xyz", s3_key_of("", "xyz"))

DistinctSeqs(S, n) ==
    { q \in UNION { [1..m -> S] : m \in 0..n } :
        \A i, j \in DOMAIN q : i # j => q[i] # q[j] }

KeyLists == DistinctSeqs(InitKeyPool, MaxInitEntries)

StrList(q) == [i \in DOMAIN q |-> StrEntry(q[i])]
DocList(q) == [i \in DOMAIN q |-> InitDocInfo(q[i])]

InitLedgers ==
    \* current format, with and without the processed_keys bucket
    { [processed_documents |-> DocList(d), processed_keys |-> StrList(k)] : d \in KeyLists, k \in KeyLists }
    \cup { [processed_documents |-> DocList(d)] : d \in KeyLists }
    \* legacy format: processed_documents is a flat list of key strings
    \cup { [processed_documents |-> StrList(d), processed_keys |-> StrList(k)] :
             d \in KeyLists \ {<< >>}, k \in KeyLists }
    \cup { [processed_documents |-> StrList(d)] : d \in KeyLists \ {<< >>} }
    \cup { [processed_keys |-> StrList(k)] : k \in KeyLists }

InitFiles == {AbsentFile, TornFile} \cup { JsonFile(d) : d \in InitLedgers }

\* Artifacts the earlier runs that wrote the ledger left in the bucket.
ArtifactsOf(f) ==
    LET pd == Get(f.data, "processed_documents", << >>)
    IN { pd[i].s3_key : i \in { j \in DOMAIN pd : ~pd[j].isstr } }

(***************************************************************************)
(* Pages as the challenge classifiers see them                             *)
(***************************************************************************)
MAX_CAPTCHA_ATTEMPTS == 50
TimeoutLimit == 5
ACCESS_RESTRICTED_WAIT_MIN == 10
ACCESS_RESTRICTED_WAIT_MAX == 20
DigitsRequired == 6

\* Bound: the length of the text Whisper returns for one audio clip.
MaxTranscript == 7

\* The characters of such a text: a digit, and a sound that is none.
TranscriptChars == {"4", " "}
DigitChars == {"0", "1", "2", "3", "4", "5", "6", "7", "8", "9"}

\* Bound: the number of frames of a page handed to the classifiers.
MaxFrames == 1

\* What the locators of one frame of page.frames find: the challenge
\* container (#captcha-container), the audio toggle
\* (#captcha__audio__button), a slider control, the text of
\* .captcha__human__title ("restricted": it says access is temporarily
\* restricted; "other": any other title) and of the robot warning
\* ("unusual": it speaks of unusual activity detected), and whether the
\* frame shows one of the challenge texts ("Verification Required" inside a
\* captcha-like container, "Slide right to secure your access"). A
\* detached frame raises on every locator call.
Frame(container, audio, slider, title, warning, challenge_text) ==
    [container |-> container, audio |-> audio, slider |-> slider, title |-> title,
     warning |-> warning, challenge_text |-> challenge_text, detached |-> FALSE]

DetachedFrame ==
    [container |-> FALSE, audio |-> FALSE, slider |-> "none", title |-> "none",
     warning |-> "none", challenge_text |-> FALSE, detached |-> TRUE]

AllFrames ==
    { Frame(c, a, sl, t, w, x) : c \in BOOLEAN, a \in BOOLEAN,
                                 sl \in {"none", "sliderContainer", "captcha__slider"},
                                 t \in {"none", "restricted", "other"},
                                 w \in {"none", "unusual"},
                                 x \in BOOLEAN } \cup {DetachedFrame}

\* A page: whether the main document shows one of the restriction texts,
\* whether it shows the CanLII captcha form, and its frames.
Dom(text, canlii, frames) ==
    [restriction_text |-> text, canlii |-> canlii, frames |-> frames]

\* is_access_restricted_page: the text locators and the body text of the
\* main document.
is_access_restricted_page(d) == d.restriction_text

\* The primary indicators of is_datadome_captcha that a frame can show.
HasPrimaryIndicator(f) ==
    /\ ~f.detached
    /\ \/ f.container
       \/ f.audio
       \/ f.title # "none"
       \/ f.slider = "sliderContainer"

\* is_datadome_captcha: the index of the first frame with a primary
\* indicator (a frame that raises is passed over); without one, the index
\* of the first frame with a challenge text, in a pass over the frames
\* that ends at the first frame that raises; 0 for None.
is_datadome_captcha(d) ==
    LET hits == { i \in DOMAIN d.frames : HasPrimaryIndicator(d.frames[i]) }
        texts == { i \in DOMAIN d.frames :
                     /\ d.frames[i].challenge_text
                     /\ \A j \in 1..i : ~d.frames[j].detached }
    IN IF hits # {}
         THEN CHOOSE i \in hits : \A j \in hits : i <= j
         ELSE IF texts # {}
                THEN CHOOSE i \in texts : \A j \in texts : i <= j
                ELSE 0

\* is_captcha_page: restriction first, then the CanLII indicators, then
\* DataDome.
is_captcha_page(d) ==
    \/ is_access_restricted_page(d)
    \/ d.canlii
    \/ is_datadome_captcha(d) # 0

\* The warning rule without its test for the audio toggle and the slider.
restricted_despite_audio(d) ==
    \E i \in DOMAIN d.frames :
      LET f == d.frames[i]
      IN /\ ~f.detached
         /\ \/ f.title = "restricted"
            \/ f.warning = "unusual"

\* is_datadome_access_restricted of canada_law_scrapper.py: the title rule
\* and the warning rule; a frame that raises is passed over.
is_datadome_access_restricted(d) ==
    \E i \in DOMAIN d.frames :
      LET f == d.frames[i]
      IN /\ ~f.detached
         /\ \/ f.title = "restricted"
            \/ f.warning = "unusual" /\ ~f.audio /\ f.slider = "none"

\* is_datadome_access_restricted of boards_tribunals_links.py: the same
\* two rules and the rule for a container without controls.
is_datadome_access_restricted_boards(d) ==
    \E i \in DOMAIN d.frames :
      LET f == d.frames[i]
      IN /\ ~f.detached
         /\ \/ f.title = "restricted"
            \/ f.warning = "unusual" /\ ~f.audio /\ f.slider = "none"
            \/ f.container /\ ~f.audio /\ f.slider # "sliderContainer"

\* is_datadome_access_restricted of legislation_links.py.
is_datadome_access_restricted_legislation(d) ==
    \E i \in DOMAIN d.frames :
      LET f == d.frames[i]
      IN /\ ~f.detached
         /\ \/ f.title = "restricted"
            \/ f.warning = "unusual"
            \/ f.container /\ ~f.audio /\ f.slider # "sliderContainer"

\* Every list of at most MaxFrames frames, alone and behind a frame that
\* raises.
FrameLists ==
    LET lists == UNION { [1..n -> AllFrames] : n \in 0..MaxFrames }
    IN lists \cup { << DetachedFrame >> \o fs : fs \in lists }

AllDoms == { Dom(t, c, fs) : t \in BOOLEAN, c \in BOOLEAN, fs \in FrameLists }

\* The pages the portal serves during a recovery.
ClearPage == Dom(FALSE, FALSE, << >>)
CanliiCaptchaPage == Dom(FALSE, TRUE, << >>)
AudioChallengePage == Dom(FALSE, FALSE, << Frame(TRUE, TRUE, "sliderContainer", "other", "none", FALSE) >>)
BannerPage == Dom(FALSE, FALSE, << Frame(TRUE, FALSE, "none", "restricted", "none", FALSE) >>)
WarningPage == Dom(FALSE, FALSE, << Frame(TRUE, FALSE, "none", "none", "unusual", FALSE) >>)
StrippedPage == Dom(FALSE, FALSE, << Frame(TRUE, FALSE, "none", "none", "none", FALSE) >>)
RestrictedStrippedPage == Dom(TRUE, FALSE, << Frame(TRUE, FALSE, "none", "none", "none", FALSE) >>)
RestrictedBodyPage == Dom(TRUE, FALSE, << >>)
LoadingPage == Dom(FALSE, FALSE, << DetachedFrame, Frame(FALSE, FALSE, "none", "other", "none", FALSE) >>)
BlockedTitlePage == Dom(FALSE, FALSE, << Frame(FALSE, FALSE, "none", "restricted", "none", FALSE) >>)

Pages ==
    { ClearPage, CanliiCaptchaPage, AudioChallengePage, BannerPage, WarningPage,
      StrippedPage, RestrictedStrippedPage, RestrictedBodyPage, LoadingPage,
      BlockedTitlePage }

NoVerdict == << >>

(***************************************************************************)
(* State                                                                   *)
(***************************************************************************)
VARIABLES
    pc,             \* where the crawl is: "down", "paging", "scan", "rows", "doc",
                    \* "upload", "mark", "row_end"
    row,            \* index of the listing row being processed
    sub,            \* 0: the row's main document, j: its j-th sub-item
    tracking_data,  \* the in-memory ledger (NoData while the process is down)
    file,           \* TRACKING_FILE
    skipped_file,   \* SKIPPED_FILE
    page,           \* URL the browser page is at
    s3,             \* keys stored in the S3 bucket
    last,           \* "loaded", "skipped", "mark_saved", "skip_saved", "skip_known",
                    \* "skip_failed" or "captcha_unrecovered" right after that
                    \* step, "recovered" or "unrecovered" from the pagination to
                    \* the reading of the rows, else "none"
    upload_ok,      \* what upload_to_s3 returned in the running call (else FALSE)
    marked,         \* history: documents mark_as_processed has returned for
    rpc,            \* where the recovery is ("off" during the crawl)
    dom,            \* the page the browser shows to the classifiers
    entry,          \* who started the recovery: "main", "hci" or "none"
    attempt,        \* attempt of the running solver loop
    consecutive_timeouts,
    cooled,         \* history: wait_for_ip_cooldown has run in this recovery
    result,         \* what the recovery returned: "True", "False" or "none"
    verdict,        \* what the classifiers said of dom
    left_by,        \* history: how the last solver loop was left
    solver,         \* the audio solver of the attempt: "datadome", "canlii" or "none"
    apc,            \* where the attempt is
    transcript,     \* the text Whisper hears
    whisper_raises, \* whether the transcription raises
    inputs,         \* number of .audio-captcha-inputs fields on the page
    numbers,        \* what transcribe_audio_captcha returned
    filled,         \* what was typed into the response field(s)
    clicked,        \* whether the verify / ok button was clicked
    solve_result,   \* what the audio solver returned: "True", "False" or "none"
    cpc,            \* where wait_for_ip_cooldown is
    wait_minutes,
    slept,          \* one-minute sleeps of the running wait_for_ip_cooldown
    site,           \* the script whose solve_captcha_automatically called it
    shown,          \* the page the caller's next classification reads
    script,         \* the script whose text-CAPTCHA loop runs (else "none")
    tpc,            \* where the text-CAPTCHA loop is
    tries,          \* "attempt" of the text-CAPTCHA loop
    widget          \* history: what happened to the widget since the last reload

crawlVars == << pc, row, sub, tracking_data, file, skipped_file, page, s3, last,
                upload_ok, marked >>

recVars == << rpc, dom, entry, attempt, consecutive_timeouts, cooled, result, verdict,
             left_by >>

textVars == << script, tpc, tries, widget >>

partVars == << solver, apc, transcript, whisper_raises, inputs, numbers, filled, clicked,
               solve_result, cpc, wait_minutes, slept, site, shown, textVars >>

\* No recovery is running.
RecoveryOff ==
    /\ rpc = "off"
    /\ dom = ClearPage
    /\ entry = "none"
    /\ attempt = 0
    /\ consecutive_timeouts = 0
    /\ cooled = FALSE
    /\ result = "none"
    /\ verdict = NoVerdict
    /\ left_by = "none"

\* No crawl is running.
CrawlOff ==
    /\ pc = "off"
    /\ row = 1
    /\ sub = 0
    /\ tracking_data = NoData
    /\ file = AbsentFile
    /\ skipped_file = AbsentFile
    /\ page = "closed"
    /\ s3 = {}
    /\ last = "none"
    /\ upload_ok = FALSE
    /\ marked = {}

(***************************************************************************)
(* One audio solve attempt, from the transcription on                      *)
(***************************************************************************)
\* What Whisper can hear: texts of at most MaxTranscript characters.
RECURSIVE Texts(_)
Texts(n) ==
    IF n = 0 THEN {""}
    ELSE Texts(n - 1) \cup { t \o c : t \in { u \in Texts(n - 1) : Len(u) = n - 1 },
                                      c \in TranscriptChars }

\* re.sub(r'[^0-9]', '', transcript)
RECURSIVE digits_of(_)
digits_of(text) ==
    IF Len(text) = 0 THEN ""
    ELSE LET c == SubSeq(text, 1, 1)
         IN (IF c \in DigitChars THEN c ELSE "")
              \o digits_of(SubSeq(text, 2, Len(text)))

\* What transcribe_audio_captcha returns: None, or the digits of the text.
None == [none |-> TRUE, digits |-> ""]
Digits(d) == [none |-> FALSE, digits |-> d]

transcribe_audio_captcha(text, raises) ==
    IF raises THEN None ELSE Digits(digits_of(text))

\* "not numbers" of Python: None or the empty string.
Falsy(n) == n.none \/ n.digits = ""

\* The check of solve_datadome_audio_captcha before it fills the fields.
datadome_accepts(n) == ~(Falsy(n) \/ Len(n.digits) # DigitsRequired)

\* The check of solve_canlii_audio_captcha before it fills the field.
canlii_accepts(n) == ~Falsy(n)

AudioOff ==
    /\ solver = "none"
    /\ apc = "off"
    /\ transcript = ""
    /\ whisper_raises = FALSE
    /\ inputs = 0
    /\ numbers = None
    /\ filled = ""
    /\ clicked = FALSE
    /\ solve_result = "none"

CooldownOff ==
    /\ cpc = "off"
    /\ wait_minutes = 0
    /\ slept = 0
    /\ site = "none"
    /\ shown = "before_wait"

\* The widget as a reload leaves it: nothing submitted to it, no reading of
\* it that came back empty.
FreshWidget == [answers |-> 0, unread |-> FALSE]

TextOff ==
    /\ script = "none"
    /\ tpc = "off"
    /\ tries = 0
    /\ widget = FreshWidget

PartsOff == AudioOff /\ CooldownOff /\ TextOff

\* An attempt of either solver has downloaded the audio.
InitAudio ==
    /\ CrawlOff
    /\ RecoveryOff
    /\ CooldownOff
    /\ TextOff
    /\ solver \in {"datadome", "canlii"}
    /\ apc = "downloaded"
    /\ transcript \in Texts(MaxTranscript)
    /\ whisper_raises \in BOOLEAN
    /\ inputs \in {DigitsRequired - 1, DigitsRequired}
    /\ numbers = None
    /\ filled = ""
    /\ clicked = FALSE
    /\ solve_result = "none"

AudioFrame == UNCHANGED << crawlVars, recVars, cpc, wait_minutes, slept, site, shown, solver,
                           transcript, whisper_raises, inputs, textVars >>

\* numbers = transcribe_audio_captcha(audio_data)
Transcribe ==
    /\ apc = "downloaded"
    /\ numbers' = transcribe_audio_captcha(transcript, whisper_raises)
    /\ apc' = "transcribed"
    /\ UNCHANGED << filled, clicked, solve_result >>
    /\ AudioFrame

\* solve_datadome_audio_captcha: the six-digit check, the six input fields,
\* one digit typed into each.
DatadomeFill ==
    /\ solver = "datadome"
    /\ apc = "transcribed"
    /\ IF datadome_accepts(numbers) /\ inputs = DigitsRequired
         THEN /\ filled' = numbers.digits
              /\ apc' = "filled"
              /\ UNCHANGED solve_result
         ELSE /\ solve_result' = "False"
              /\ apc' = "returned"
              /\ UNCHANGED filled
    /\ UNCHANGED << numbers, clicked >>
    /\ AudioFrame

\* solve_datadome_audio_captcha: the verify button, then True when the
\* challenge is gone and False (with a reload) when it is not.
DatadomeVerify ==
    /\ solver = "datadome"
    /\ apc = "filled"
    /\ clicked' = TRUE
    /\ solve_result' \in {"True", "False"}
    /\ apc' = "returned"
    /\ UNCHANGED << numbers, filled >>
    /\ AudioFrame

\* solve_canlii_audio_captcha: "if not numbers", then the answer typed into
\* #captchaResponse.
CanliiFill ==
    /\ solver = "canlii"
    /\ apc = "transcribed"
    /\ IF canlii_accepts(numbers)
         THEN /\ filled' = numbers.digits
              /\ apc' = "filled"
              /\ UNCHANGED solve_result
         ELSE /\ solve_result' = "False"
              /\ apc' = "returned"
              /\ UNCHANGED filled
    /\ UNCHANGED << numbers, clicked >>
    /\ AudioFrame

\* solve_canlii_audio_captcha: the ok button, then True when
\* is_captcha_page is False and False (with a reload) when it is not.
CanliiSubmit ==
    /\ solver = "canlii"
    /\ apc = "filled"
    /\ clicked' = TRUE
    /\ solve_result' \in {"True", "False"}
    /\ apc' = "returned"
    /\ UNCHANGED << numbers, filled >>
    /\ AudioFrame

NextAudio ==
    \/ Transcribe
    \/ DatadomeFill
    \/ DatadomeVerify
    \/ CanliiFill
    \/ CanliiSubmit

(***************************************************************************)
(* wait_for_ip_cooldown                                                    *)
(***************************************************************************)
\* random.randint(a, b): both ends included.
randint(a, b) == a..b

\* range(wait_minutes, -1, -1) in the place of range(wait_minutes, 0, -1).
one_more_pass(w) == w + 1

\* The passes of "for remaining_minutes in range(wait_minutes, 0, -1)".
passes(w) == w

InitCooldown ==
    /\ CrawlOff
    /\ RecoveryOff
    /\ AudioOff
    /\ TextOff
    /\ cpc = "called"
    /\ wait_minutes = 0
    /\ slept = 0
    /\ site \in {"canada_law_scrapper", "legislation_links"}
    /\ shown = "before_wait"

CooldownFrame == UNCHANGED << crawlVars, recVars, solver, apc, transcript, whisper_raises,
                              inputs, numbers, filled, clicked, solve_result, site,
                              textVars >>

\* wait_minutes = random.randint(ACCESS_RESTRICTED_WAIT_MIN, ACCESS_RESTRICTED_WAIT_MAX)
CooldownChoose ==
    /\ cpc = "called"
    /\ wait_minutes' \in randint(ACCESS_RESTRICTED_WAIT_MIN, ACCESS_RESTRICTED_WAIT_MAX)
    /\ cpc' = "waiting"
    /\ UNCHANGED << slept, shown >>
    /\ CooldownFrame

\* time.sleep(60)
CooldownSleep ==
    /\ cpc = "waiting"
    /\ slept < passes(wait_minutes)
    /\ slept' = slept + 1
    /\ UNCHANGED << cpc, wait_minutes, shown >>
    /\ CooldownFrame

\* return True
CooldownReturn ==
    /\ cpc = "waiting"
    /\ slept >= passes(wait_minutes)
    /\ cpc' = "returned"
    /\ UNCHANGED << wait_minutes, slept, shown >>
    /\ CooldownFrame

\* The caller's first page operation after the wait. Every call site of
\* canada_law_scrapper.py goes to START_URL (an exception of goto leaves the
\* function); solve_captcha_automatically of legislation_links.py reloads
\* the page it is on and swallows a reload that raises.
CooldownNavigate ==
    /\ cpc = "returned"
    /\ IF site = "canada_law_scrapper"
         THEN \/ /\ shown' = "START_URL"
                 /\ cpc' = "navigated"
              \/ /\ cpc' = "raised"
                 /\ UNCHANGED shown
         ELSE /\ shown' \in {"reloaded", "before_wait"}
              /\ cpc' = "navigated"
    /\ UNCHANGED << wait_minutes, slept >>
    /\ CooldownFrame

\* The caller classifies the page; a later restriction calls again.
CooldownAgain ==
    /\ cpc \in {"navigated", "raised"}
    /\ cpc' = "called"
    /\ wait_minutes' = 0
    /\ slept' = 0
    /\ shown' = "before_wait"
    /\ CooldownFrame

NextCooldown ==
    \/ CooldownChoose
    \/ CooldownSleep
    \/ CooldownReturn
    \/ CooldownNavigate
    \/ CooldownAgain

(***************************************************************************)
(* The text-CAPTCHA loop of solve_captcha_automatically, as written in     *)
(* canada_law_scrapper.py and in WORKING_LOCAL/boards_tribunals_links.py   *)
(***************************************************************************)
\* MAX_CAPTCHA_ATTEMPTS of WORKING_LOCAL/boards_tribunals_links.py
WORKING_LOCAL_MAX_CAPTCHA_ATTEMPTS == 3

InitText ==
    /\ CrawlOff
    /\ RecoveryOff
    /\ AudioOff
    /\ CooldownOff
    /\ script \in {"canada_law_scrapper", "working_local"}
    /\ tpc = "loop"
    /\ tries = 0
    /\ widget = FreshWidget

TextFrame == UNCHANGED << crawlVars, recVars, solver, apc, transcript, whisper_raises,
                          inputs, numbers, filled, clicked, solve_result, cpc,
                          wait_minutes, slept, site, shown, script >>

\* page.reload(): a new widget, or the old one when the reload raises (each
\* caller catches that or runs in a try block whose handler goes on).
Reloaded(w) == {FreshWidget, w}

\* fill(...) and the click on "ok": one more answer given to this widget.
Answered(w) == [w EXCEPT !.answers = IF @ < 2 THEN @ + 1 ELSE @]

\* for attempt in range(1, MAX_CAPTCHA_ATTEMPTS + 1): canada_law_scrapper.py
\* calls solve_canlii_audio_captcha first, the older script has the image only.
TextAttemptStart ==
    /\ tpc = "loop"
    /\ IF tries < (IF script = "canada_law_scrapper" THEN MAX_CAPTCHA_ATTEMPTS
                                                    ELSE WORKING_LOCAL_MAX_CAPTCHA_ATTEMPTS)
         THEN /\ tries' = tries + 1
              /\ tpc' = IF script = "canada_law_scrapper" THEN "audio" ELSE "image"
         ELSE /\ tpc' = "returned_False"
              /\ UNCHANGED tries
    /\ UNCHANGED widget
    /\ TextFrame

\* solve_canlii_audio_captcha(page) in the loop of canada_law_scrapper.py.
TextAudio ==
    /\ tpc = "audio"
    /\ \/ \* no toggle, no audio tag, no source, download or transcription failed
          /\ tpc' = "image"
          /\ UNCHANGED widget
       \/ \* the answer is accepted
          /\ widget' = Answered(widget)
          /\ tpc' = "returned_True"
       \/ \* the answer is rejected: reload in try/except, return False
          /\ widget' \in Reloaded(Answered(widget))
          /\ tpc' = "image"
       \/ \* an exception: reload in try/except, return False
          /\ widget' \in Reloaded(widget)
          /\ tpc' = "image"
    /\ UNCHANGED tries
    /\ TextFrame

\* The image read by Bedrock, the rest of the loop body.
TextImage ==
    /\ tpc = "image"
    /\ \/ \* image not found or not captured: continue
          /\ tpc' = "loop"
          /\ UNCHANGED widget
       \/ \* "if not captcha_solution": reload, continue
          /\ widget' \in Reloaded([widget EXCEPT !.unread = TRUE])
          /\ tpc' = "loop"
       \/ \* the answer is accepted
          /\ widget' = Answered(widget)
          /\ tpc' = "returned_True"
       \/ \* the answer is rejected
          /\ widget' \in IF script = "canada_law_scrapper"
                           THEN Reloaded(Answered(widget))
                           ELSE {Answered(widget)}
          /\ tpc' = "loop"
       \/ \* an exception before the answer is read
          /\ widget' \in IF script = "canada_law_scrapper"
                           THEN Reloaded(widget)
                           ELSE {widget}
          /\ tpc' = "loop"
    /\ UNCHANGED tries
    /\ TextFrame

NextText ==
    \/ TextAttemptStart
    \/ TextAudio
    \/ TextImage

Init ==
    /\ pc = "down"
    /\ row = 1
    /\ sub = 0
    /\ tracking_data = NoData
    /\ file \in InitFiles
    /\ skipped_file = AbsentFile
    /\ page = "closed"
    /\ s3 = ArtifactsOf(file)
    /\ last = "none"
    /\ upload_ok = FALSE
    /\ marked = {}
    /\ RecoveryOff
    /\ PartsOff

Doc == DocAt(row, sub)
DocKey == doc_key(Doc.prefix, Doc.href)
DocUrl == BASE_URL \o Doc.href
DocRef == << Doc.prefix, Doc.href >>

\* main: load the ledger, open the browser, enter the category page.
Start ==
    /\ pc = "down"
    /\ tracking_data' = load_tracking_data(file)
    /\ pc' = "paging"
    /\ row' = 1
    /\ sub' = 0
    /\ page' = category_url
    /\ last' = "loaded"
    /\ UNCHANGED << file, skipped_file, s3, upload_ok, marked >>
    /\ UNCHANGED << recVars, partVars >>

\* The process is killed (or the machine stops) between two steps.
Crash ==
    /\ pc # "down"
    /\ pc' = "down"
    /\ row' = 1
    /\ sub' = 0
    /\ tracking_data' = NoData
    /\ page' = "closed"
    /\ last' = "none"
    /\ upload_ok' = FALSE
    /\ UNCHANGED << file, skipped_file, s3, marked >>
    /\ UNCHANGED << recVars, partVars >>

\* process_category_page, the "Show more results" loop. A challenge after a
\* click goes to handle_captcha_interruption. On True the category page is
\* requested again; a goto that raises lands in "except Exception: break"
\* with the browser on the page the recovery left. On False the loop waits
\* for a manual solve and goes on, on that page too.
Paginate ==
    /\ pc = "paging"
    /\ pc' = "scan"
    /\ \/ /\ UNCHANGED << page, last >>
       \/ /\ page' \in {category_url, START_URL}
          /\ last' = "recovered"
       \/ /\ page' = START_URL
          /\ last' = "unrecovered"
    /\ UNCHANGED << row, sub, tracking_data, file, skipped_file, s3, upload_ok, marked >>
    /\ UNCHANGED << recVars, partVars >>

\* rows = page.locator("#legislationsContainer tr").all(): the rows of the
\* page the browser is on; any page but the listing has none.
RowScan ==
    /\ pc = "scan"
    /\ pc' = "rows"
    /\ row' = IF page = category_url THEN 1 ELSE Len(items_to_process) + 1
    /\ last' = IF last = "loaded" THEN last ELSE "none"
    /\ UNCHANGED << sub, tracking_data, file, skipped_file, page, s3, upload_ok, marked >>
    /\ UNCHANGED << recVars, partVars >>

\* process_category_page: the listing is exhausted, main returns.
Finish ==
    /\ pc = "rows"
    /\ row > Len(items_to_process)
    /\ pc' = "down"
    /\ row' = 1
    /\ sub' = 0
    /\ tracking_data' = NoData
    /\ page' = "closed"
    /\ last' = "none"
    /\ upload_ok' = FALSE
    /\ UNCHANGED << file, skipped_file, s3, marked >>
    /\ UNCHANGED << recVars, partVars >>

\* Outcomes of writing SKIPPED_FILE: written, or an exception that
\* save_skipped_document swallows, before or after the file was truncated.
SkipWrite(doc_info) ==
    LET new == save_skipped_document(skipped_file, doc_info)
    IN IF new = skipped_file
         THEN /\ skipped_file' = skipped_file
              /\ last' = "skip_known"
         ELSE \/ /\ skipped_file' = new
                 /\ last' = "skip_saved"
              \/ /\ skipped_file' \in {skipped_file, TornFile}
                 /\ last' = "skip_failed"

\* process_category_page: a row marked repealed in the list is recorded in
\* the skip ledger and passed over.
SkipRepealedRow ==
    /\ pc = "rows"
    /\ row <= Len(items_to_process)
    /\ items_to_process[row].main.is_repealed
    /\ SkipWrite([href |-> items_to_process[row].main.href,
                  reason |-> "Repealed, spent or not in force (marked in category list)"])
    /\ row' = row + 1
    /\ UNCHANGED << pc, sub, tracking_data, file, page, s3, upload_ok, marked >>
    /\ UNCHANGED << recVars, partVars >>

\* main_processed and all_subs_processed of process_category_page.
RowComplete(tracking, r) ==
    /\ is_already_processed(tracking, doc_key("main", items_to_process[r].main.href))
    /\ \A j \in DOMAIN items_to_process[r].sub_items :
          is_already_processed(tracking,
              doc_key(items_to_process[r].sub_items[j].type, items_to_process[r].sub_items[j].href))

\* process_category_page: a row whose documents are all complete.
SkipCompleteRow ==
    /\ pc = "rows"
    /\ row <= Len(items_to_process)
    /\ ~items_to_process[row].main.is_repealed
    /\ RowComplete(tracking_data, row)
    /\ row' = row + 1
    /\ last' = "none"
    /\ UNCHANGED << pc, sub, tracking_data, file, skipped_file, page, s3, upload_ok,
                    marked >>
    /\ UNCHANGED << recVars, partVars >>

\* process_category_page: the row's documents are processed, main first.
EnterRow ==
    /\ pc = "rows"
    /\ row <= Len(items_to_process)
    /\ ~items_to_process[row].main.is_repealed
    /\ ~RowComplete(tracking_data, row)
    /\ pc' = "doc"
    /\ sub' = 0
    /\ last' = "none"
    /\ UNCHANGED << row, tracking_data, file, skipped_file, page, s3, upload_ok, marked >>
    /\ UNCHANGED << recVars, partVars >>

\* process_legislation_document has returned with the browser at p: the next
\* sub-item of the row, or the end of the row.
AfterDoc(p) ==
    /\ page' = p
    /\ row' = row
    /\ IF sub < Len(items_to_process[row].sub_items)
         THEN /\ pc' = "doc"
              /\ sub' = sub + 1
         ELSE /\ pc' = "row_end"
              /\ sub' = sub

\* process_category_page: after the documents of a row, back to the
\* category page and on to the next row.
RowEnd ==
    /\ pc = "row_end"
    /\ page' = category_url
    /\ row' = row + 1
    /\ sub' = 0
    /\ pc' = "rows"
    /\ last' = "none"
    /\ UNCHANGED << tracking_data, file, skipped_file, s3, upload_ok, marked >>
    /\ UNCHANGED << recVars, partVars >>

\* Lines 1547-1549: "Skipping (already processed)", return False.
SkipReturnAfterNavigation == AfterDoc(DocUrl)

SkipReturn == AfterDoc(page)

\* Line 1593: the ledger is touched only when upload_to_s3 returned True.
marks_regardless(returned) == TRUE

marks_after(returned) == returned

\* process_legislation_document, from its entry to the rendered PDF:
\* the skip check, the navigation, the challenge check with its recovery,
\* extract_document_content (with is_document_in_force) and
\* create_pdf_from_html.
DocBegin ==
    /\ pc = "doc"
    /\ IF is_already_processed(tracking_data, DocKey)
         THEN /\ last' = "skipped"
              /\ SkipReturn
              /\ UNCHANGED skipped_file
         ELSE \E outcome \in {"captcha_unrecovered", "not_in_force", "no_content",
                              "pdf_failed", "rendered"} :
                CASE outcome = "captcha_unrecovered" ->
                       \* handle_captcha_interruption returned False
                       /\ \E p \in {DocUrl, START_URL} : AfterDoc(p)
                       /\ last' = "captcha_unrecovered"
                       /\ UNCHANGED skipped_file
                  [] outcome = "not_in_force" ->
                       /\ NotInForceText(warning_text_of(Doc.href))
                       /\ SkipWrite([href |-> Doc.href, reason |-> warning_text_of(Doc.href)])
                       /\ AfterDoc(DocUrl)
                  [] outcome \in {"no_content", "pdf_failed"} ->
                       /\ AfterDoc(DocUrl)
                       /\ last' = "none"
                       /\ UNCHANGED skipped_file
                  [] outcome = "rendered" ->
                       /\ pc' = "upload"
                       /\ page' = DocUrl
                       /\ last' = "none"
                       /\ UNCHANGED << row, sub, skipped_file >>
    /\ UNCHANGED << tracking_data, file, s3, upload_ok, marked >>
    /\ UNCHANGED << recVars, partVars >>

\* upload_to_s3: True when the key is already in the bucket or the upload
\* went through, False when the client raised.
DocUpload ==
    /\ pc = "upload"
    /\ \E ok \in BOOLEAN :
         /\ s3' = IF ok THEN s3 \cup {s3_key_of(Doc.citation, Doc.title)} ELSE s3
         /\ IF marks_after(ok)
              THEN /\ pc' = "mark"
                   /\ upload_ok' = ok
                   /\ UNCHANGED << row, sub, page >>
              ELSE /\ upload_ok' = FALSE
                   /\ AfterDoc(page)
    /\ last' = "none"
    /\ UNCHANGED << tracking_data, file, skipped_file, marked >>
    /\ UNCHANGED << recVars, partVars >>

\* The entry process_legislation_document hands to mark_as_processed.
DocEntry == DocInfo(DocKey, Doc.href, s3_key_of(Doc.citation, Doc.title))

\* mark_as_processed with a ledger write that succeeds (or no write at all
\* when the key is already complete).
DocMark ==
    /\ pc = "mark"
    /\ LET new == mark_as_processed(tracking_data, DocEntry)
       IN /\ tracking_data' = new
          /\ file' = IF new = tracking_data THEN file ELSE save_tracking_data(new)
          /\ last' = IF new = tracking_data THEN "none" ELSE "mark_saved"
    /\ marked' = marked \cup {DocRef}
    /\ upload_ok' = FALSE
    /\ AfterDoc(page)
    /\ UNCHANGED << skipped_file, s3 >>
    /\ UNCHANGED << recVars, partVars >>

rolled_back(old, new) == old

\* The in-memory ledger after a save that failed: the append of line 302
\* came first and nothing undoes it.
after_failed_save(old, new) == new

\* mark_as_processed with a ledger write that raises inside
\* save_tracking_data: the exception is swallowed, the file is as it was or
\* already truncated by open(..., 'w').
DocMarkWriteFails ==
    /\ pc = "mark"
    /\ LET new == mark_as_processed(tracking_data, DocEntry)
       IN /\ new # tracking_data
          /\ tracking_data' = after_failed_save(tracking_data, new)
    /\ file' \in {file, TornFile}
    /\ last' = "none"
    /\ marked' = marked \cup {DocRef}
    /\ upload_ok' = FALSE
    /\ AfterDoc(page)
    /\ UNCHANGED << skipped_file, s3 >>
    /\ UNCHANGED << recVars, partVars >>

\* The process stops in the middle of save_tracking_data: open(..., 'w') has
\* truncated the file and json.dump has not finished.
CrashInSave ==
    /\ pc = "mark"
    /\ mark_as_processed(tracking_data, DocEntry) # tracking_data
    /\ file' = TornFile
    /\ pc' = "down"
    /\ row' = 1
    /\ sub' = 0
    /\ tracking_data' = NoData
    /\ page' = "closed"
    /\ last' = "none"
    /\ upload_ok' = FALSE
    /\ UNCHANGED << skipped_file, s3, marked >>
    /\ UNCHANGED << recVars, partVars >>

(***************************************************************************)
(* The classifiers applied to a page                                       *)
(***************************************************************************)
InitClassify ==
    /\ CrawlOff
    /\ PartsOff
    /\ rpc = "classify"
    /\ dom \in AllDoms
    /\ entry = "none"
    /\ attempt = 0
    /\ consecutive_timeouts = 0
    /\ cooled = FALSE
    /\ result = "none"
    /\ verdict = NoVerdict
    /\ left_by = "none"

Classify ==
    /\ rpc = "classify"
    /\ verdict = NoVerdict
    /\ verdict' = [is_access_restricted_page |-> is_access_restricted_page(dom),
                   is_captcha_page |-> is_captcha_page(dom),
                   is_datadome_captcha |-> is_datadome_captcha(dom),
                   is_datadome_access_restricted |-> is_datadome_access_restricted(dom),
                   boards |-> is_datadome_access_restricted_boards(dom),
                   legislation |-> is_datadome_access_restricted_legislation(dom)]
    /\ UNCHANGED << rpc, dom, entry, attempt, consecutive_timeouts, cooled, result >>
    /\ UNCHANGED left_by
    /\ UNCHANGED << crawlVars, partVars >>

NextClassify == Classify

(***************************************************************************)
(* Challenge recovery                                                      *)
(***************************************************************************)
InitRecovery ==
    /\ CrawlOff
    /\ PartsOff
    /\ rpc = "idle"
    /\ dom = ClearPage
    /\ entry = "none"
    /\ attempt = 0
    /\ consecutive_timeouts = 0
    /\ cooled = FALSE
    /\ result = "none"
    /\ verdict = NoVerdict
    /\ left_by = "none"

\* A function of the recovery returns to the crawl.
Return(value) ==
    /\ rpc' = "idle"
    /\ result' = value
    /\ attempt' = 0
    /\ consecutive_timeouts' = 0

\* solve_captcha_automatically returns to its caller: on False main and
\* handle_captcha_interruption both wait for a manual solve.
SolveReturns(value) ==
    IF value
      THEN Return("True")
      ELSE /\ rpc' = "manual"
           /\ result' = "False"
           /\ attempt' = 0
           /\ consecutive_timeouts' = 0

\* return solve_captcha_automatically(page): the function starts over.
Recurse ==
    /\ rpc' = "solve"
    /\ attempt' = 0
    /\ consecutive_timeouts' = 0
    /\ UNCHANGED result

\* The crawl navigates; the portal answers with any page.
Navigate ==
    /\ rpc = "idle"
    /\ dom' \in Pages
    /\ cooled' = FALSE
    /\ result' = "none"
    /\ entry' = "none"
    /\ left_by' = "none"
    /\ UNCHANGED << rpc, attempt, consecutive_timeouts, verdict >>
    /\ UNCHANGED << crawlVars, partVars >>

\* main: a challenge on the start page or on a category page is handed to
\* solve_captcha_automatically directly.
MainCheck ==
    /\ rpc = "idle"
    /\ result = "none"
    /\ is_datadome_captcha(dom) # 0 \/ dom.canlii \/ is_captcha_page(dom)
    /\ rpc' = "solve"
    /\ entry' = "main"
    /\ UNCHANGED << dom, attempt, consecutive_timeouts, cooled, result, verdict >>
    /\ UNCHANGED left_by
    /\ UNCHANGED << crawlVars, partVars >>

\* process_legislation_document, extract_document_content and the
\* pagination of process_category_page: a challenge met while processing is
\* handed to handle_captcha_interruption.
Interrupted ==
    /\ rpc = "idle"
    /\ result = "none"
    /\ is_captcha_page(dom)
    /\ rpc' = "hci"
    /\ entry' = "hci"
    /\ UNCHANGED << dom, attempt, consecutive_timeouts, cooled, result, verdict >>
    /\ UNCHANGED left_by
    /\ UNCHANGED << crawlVars, partVars >>

\* solve_captcha_automatically, up to its first loop or its first cooldown.
SolveEnter ==
    /\ rpc = "solve"
    /\ IF is_datadome_captcha(dom) # 0
         THEN IF is_datadome_access_restricted(dom)
                THEN /\ cooled' = TRUE
                     /\ dom' \in Pages
                     /\ rpc' = "solve_cooled"
                ELSE /\ rpc' = "dd_loop"
                     /\ UNCHANGED << dom, cooled >>
         ELSE /\ rpc' = "canlii_loop"
              /\ UNCHANGED << dom, cooled >>
    /\ attempt' = 0
    /\ consecutive_timeouts' = 0
    /\ UNCHANGED << entry, result, verdict >>
    /\ UNCHANGED left_by
    /\ UNCHANGED << crawlVars, partVars >>

\* solve_captcha_automatically after its first cooldown: a second cooldown
\* when the start page is still restricted, then True or the recursion.
SolveAfterCooldown ==
    /\ rpc = "solve_cooled"
    /\ \E d \in (IF is_datadome_access_restricted(dom) THEN Pages ELSE {dom}) :
         /\ dom' = d
         /\ IF ~is_captcha_page(d) THEN SolveReturns(TRUE) ELSE Recurse
    /\ UNCHANGED << entry, cooled, verdict >>
    /\ UNCHANGED left_by
    /\ UNCHANGED << crawlVars, partVars >>

one_attempt_more(a) == a <= MAX_CAPTCHA_ATTEMPTS

\* for attempt in range(1, MAX_CAPTCHA_ATTEMPTS + 1): after attempt a there
\* is a next one.
has_next_attempt(a) == a < MAX_CAPTCHA_ATTEMPTS

\* The head of the DataDome loop: the next attempt, or the loop is used up.
DDAttemptStart ==
    /\ rpc = "dd_loop"
    /\ IF has_next_attempt(attempt)
         THEN /\ attempt' = attempt + 1
              /\ rpc' = "dd_attempt"
              /\ UNCHANGED << consecutive_timeouts, result, left_by >>
         ELSE /\ SolveReturns(FALSE)
              /\ left_by' = "exhausted"
    /\ UNCHANGED << dom, entry, cooled, verdict >>
    /\ UNCHANGED << crawlVars, partVars >>

\* solve_datadome_audio_captcha: what it returns and the page it leaves.
\* None when neither the container nor the audio toggle shows up, False
\* when there is no audio track, and with an audio toggle any of: a failed
\* download or transcription, a submitted answer after which the challenge
\* is gone (True), or still there (reload, False).
DatadomeAudioOutcomes(d) ==
    LET i == is_datadome_captcha(d)
    IN IF i = 0 \/ ~(d.frames[i].container \/ d.frames[i].audio)
         THEN { [returns |-> "None", dom |-> d] }
         ELSE IF ~d.frames[i].audio
                THEN { [returns |-> "False", dom |-> d] }
                ELSE { [returns |-> "False", dom |-> e] : e \in Pages \cup {d} } \cup
                     { [returns |-> "True", dom |-> e] :
                         e \in { x \in Pages : is_datadome_captcha(x) = 0 } }

never_confirms(d) == FALSE

\* Line 1063: after the fifth timeout in a row, is the page restricted?
confirms_restricted(d) == is_datadome_access_restricted(d)

never_became(d) == FALSE

\* Line 1076: did the page become restricted during the attempt?
became_restricted(d) == is_datadome_access_restricted(d)

\* Line 1055: solve_datadome_audio_captcha runs and returns.
DDAttempt ==
    /\ rpc = "dd_attempt"
    /\ \E o \in DatadomeAudioOutcomes(dom) :
         /\ dom' = o.dom
         /\ rpc' = "dd_" \o o.returns
    /\ UNCHANGED << entry, attempt, consecutive_timeouts, cooled, result, verdict, left_by >>
    /\ UNCHANGED << crawlVars, partVars >>

\* The rest of the loop body: the count of timeouts in a row, the check
\* for a restriction, the reload button.
DDAfterAttempt ==
    /\ rpc \in {"dd_True", "dd_False", "dd_None"}
    /\ LET timeouts == IF rpc = "dd_None" THEN consecutive_timeouts + 1 ELSE 0
       IN CASE rpc = "dd_True" ->
                 /\ SolveReturns(TRUE)
                 /\ left_by' = "solved"
                 /\ UNCHANGED << dom, cooled >>
            [] rpc = "dd_None" /\ timeouts >= TimeoutLimit ->
                 IF confirms_restricted(dom)
                   THEN /\ cooled' = TRUE
                        /\ dom' \in Pages
                        /\ Recurse
                        /\ left_by' = "timeout_pattern"
                   ELSE /\ SolveReturns(FALSE)
                        /\ left_by' = "break"
                        /\ UNCHANGED << dom, cooled >>
            [] OTHER ->
                 IF became_restricted(dom)
                   THEN /\ cooled' = TRUE
                        /\ dom' \in Pages
                        /\ Recurse
                        /\ left_by' = "restricted"
                   ELSE /\ dom' \in Pages \cup {dom}
                        /\ rpc' = "dd_loop"
                        /\ consecutive_timeouts' = timeouts
                        /\ UNCHANGED << attempt, cooled, result, left_by >>
    /\ UNCHANGED << entry, verdict >>
    /\ UNCHANGED << crawlVars, partVars >>

\* The head of the CanLII loop.
CanliiAttemptStart ==
    /\ rpc = "canlii_loop"
    /\ IF has_next_attempt(attempt)
         THEN /\ attempt' = attempt + 1
              /\ rpc' = "canlii_attempt"
              /\ UNCHANGED << consecutive_timeouts, result, left_by >>
         ELSE /\ SolveReturns(FALSE)
              /\ left_by' = "exhausted"
    /\ UNCHANGED << dom, entry, cooled, verdict >>
    /\ UNCHANGED << crawlVars, partVars >>

\* One pass of the CanLII loop body: solve_canlii_audio_captcha, then the
\* image read by Bedrock. An answer can be submitted only on a page with
\* the captcha form; it counts as solved when is_captcha_page is False
\* afterwards. Every other way out reloads the page or leaves it as it is
\* (the reloads are followed one by one in TextAudio and TextImage).
CanliiAttempt ==
    /\ rpc = "canlii_attempt"
    /\ \E d \in Pages \cup {dom} :
         /\ dom' = d
         /\ \/ /\ dom.canlii
               /\ ~is_captcha_page(d)
               /\ SolveReturns(TRUE)
               /\ left_by' = "solved"
            \/ /\ rpc' = "canlii_loop"
               /\ UNCHANGED << attempt, consecutive_timeouts, result, left_by >>
    /\ UNCHANGED << entry, cooled, verdict >>
    /\ UNCHANGED << crawlVars, partVars >>

only_datadome(d) == is_datadome_captcha(d) # 0

\* "while True" in the place of "while is_captcha_page(page)".
never_clears(d) == TRUE

\* The condition of the loop that waits for a manual solve.
still_challenged(d) == is_captcha_page(d)

\* while is_captcha_page(page): page.wait_for_timeout(5000)
ManualWait ==
    /\ rpc = "manual"
    /\ IF still_challenged(dom)
         THEN /\ dom' \in Pages
              /\ UNCHANGED << rpc, result, attempt, consecutive_timeouts >>
         ELSE /\ Return(IF entry = "hci" THEN "True" ELSE result)
              /\ UNCHANGED dom
    /\ UNCHANGED << entry, cooled, verdict >>
    /\ UNCHANGED left_by
    /\ UNCHANGED << crawlVars, partVars >>

\* handle_captcha_interruption, up to its first cooldown or to the start
\* page.
HciEnter ==
    /\ rpc = "hci"
    /\ dom' \in Pages
    /\ IF is_datadome_access_restricted(dom)
         THEN /\ cooled' = TRUE
              /\ rpc' = "hci_dd_cooled"
         ELSE IF is_access_restricted_page(dom)
                THEN /\ cooled' = TRUE
                     /\ rpc' = "hci_body_cooled"
                ELSE /\ rpc' = "hci_home"
                     /\ UNCHANGED cooled
    /\ UNCHANGED << entry, attempt, consecutive_timeouts, result, verdict >>
    /\ UNCHANGED left_by
    /\ UNCHANGED << crawlVars, partVars >>

\* After the cooldown for a DataDome restriction: a second cooldown when
\* still restricted, then the solver for a remaining challenge.
HciDDCooled ==
    /\ rpc = "hci_dd_cooled"
    /\ \E d \in (IF is_datadome_access_restricted(dom) THEN Pages ELSE {dom}) :
         /\ dom' = d
         /\ IF is_captcha_page(d) /\ ~is_datadome_access_restricted(d)
              THEN /\ rpc' = "solve"
                   /\ UNCHANGED << attempt, consecutive_timeouts, result >>
              ELSE Return("True")
    /\ UNCHANGED << entry, cooled, verdict >>
    /\ UNCHANGED left_by
    /\ UNCHANGED << crawlVars, partVars >>

\* After the cooldown for a restriction text in the main document.
HciBodyCooled ==
    /\ rpc = "hci_body_cooled"
    /\ \E d \in (IF is_access_restricted_page(dom) THEN Pages ELSE {dom}) :
         /\ dom' = d
         /\ IF is_captcha_page(d) /\ ~is_access_restricted_page(d)
              THEN /\ rpc' = "solve"
                   /\ UNCHANGED << attempt, consecutive_timeouts, result >>
              ELSE Return("True")
    /\ UNCHANGED << entry, cooled, verdict >>
    /\ UNCHANGED left_by
    /\ UNCHANGED << crawlVars, partVars >>

\* On the start page: one cooldown when it shows a restriction text, then
\* the solver when is_captcha_page.
HciHome ==
    /\ rpc = "hci_home"
    /\ \E d \in (IF is_access_restricted_page(dom) THEN Pages ELSE {dom}) :
         /\ dom' = d
         /\ IF is_captcha_page(d)
              THEN /\ rpc' = "solve"
                   /\ UNCHANGED << attempt, consecutive_timeouts, result >>
              ELSE Return("True")
    /\ cooled' = (cooled \/ is_access_restricted_page(dom))
    /\ UNCHANGED << entry, verdict >>
    /\ UNCHANGED left_by
    /\ UNCHANGED << crawlVars, partVars >>

catches_nothing(caller) == FALSE

\* The try ... except Exception around the body of
\* handle_captcha_interruption catches what is raised in its own steps and
\* in the solver it called; main calls the solver under no try block.
catches(caller) == caller = "hci"

\* An exception leaves the recovery: "Recovery failed", return False, or
\* it goes up through main and ends the crawl.
Raise ==
    IF catches(entry)
      THEN Return("False")
      ELSE /\ rpc' = "raised"
           /\ attempt' = 0
           /\ consecutive_timeouts' = 0
           /\ UNCHANGED result

\* A navigation of handle_captcha_interruption raises.
HciException ==
    /\ rpc \in {"hci", "hci_dd_cooled", "hci_body_cooled", "hci_home"}
    /\ Raise
    /\ UNCHANGED << dom, entry, cooled, verdict >>
    /\ UNCHANGED left_by
    /\ UNCHANGED << crawlVars, partVars >>

\* page.goto(START_URL) raises after a cooldown of
\* solve_captcha_automatically (lines 1034, 1041, 1066, 1079).
GotoRaises ==
    /\ \/ /\ rpc = "solve"
          /\ is_datadome_captcha(dom) # 0
          /\ is_datadome_access_restricted(dom)
       \/ /\ rpc = "solve_cooled"
          /\ is_datadome_access_restricted(dom)
       \/ /\ rpc \in {"dd_False", "dd_None"}
          /\ is_datadome_access_restricted(dom)
    /\ cooled' = TRUE
    /\ Raise
    /\ UNCHANGED << dom, entry, verdict >>
    /\ UNCHANGED left_by
    /\ UNCHANGED << crawlVars, partVars >>

NextRecovery ==
    \/ Navigate
    \/ MainCheck
    \/ Interrupted
    \/ SolveEnter
    \/ SolveAfterCooldown
    \/ DDAttemptStart
    \/ DDAttempt
    \/ DDAfterAttempt
    \/ CanliiAttemptStart
    \/ CanliiAttempt
    \/ ManualWait
    \/ HciEnter
    \/ HciDDCooled
    \/ HciBodyCooled
    \/ HciHome
    \/ HciException
    \/ GotoRaises

NextNoFail ==
    \/ Start
    \/ Paginate
    \/ RowScan
    \/ Crash
    \/ Finish
    \/ SkipRepealedRow
    \/ SkipCompleteRow
    \/ EnterRow
    \/ RowEnd
    \/ DocBegin
    \/ DocUpload
    \/ DocMark

NextCrash ==
    \/ NextNoFail
    \/ CrashInSave

Next ==
    \/ NextCrash
    \/ DocMarkWriteFails

vars == << crawlVars, recVars, partVars >>

\* The crawl with every failure the code provides for.
Spec == Init /\ [][Next]_vars

\* The crawl in which no ledger write raises; the process may still stop at
\* any point, also inside a write.
SpecCrash == Init /\ [][NextCrash]_vars

\* The crawl without ledger write failures and without a stop inside a write.
SpecNoFail == Init /\ [][NextNoFail]_vars

\* The recovery from a challenge, on pages the portal chooses.
SpecRecovery == InitRecovery /\ [][NextRecovery]_vars

\* The same, with the process running on: a recovery that can take a step
\* takes one.
SpecRecoveryLive == InitRecovery /\ [][NextRecovery]_vars /\ WF_vars(NextRecovery)

\* The classifiers on every page of at most MaxFrames frames.
SpecClassify == InitClassify /\ [][NextClassify]_vars

\* One attempt of each audio solver on every text of at most MaxTranscript
\* characters.
SpecAudio == InitAudio /\ [][NextAudio]_vars

\* wait_for_ip_cooldown, call after call.
SpecCooldown == InitCooldown /\ [][NextCooldown]_vars

\* The text-CAPTCHA loop of either script.
SpecText == InitText /\ [][NextText]_vars

(***************************************************************************)
(* Properties of the classifiers and of the recovery                       *)
(***************************************************************************)
\* A readable frame holds the challenge container and neither the audio
\* toggle nor a slider control.
HasStrippedContainer(d) ==
    \E i \in DOMAIN d.frames :
      /\ ~d.frames[i].detached
      /\ d.frames[i].container
      /\ ~d.frames[i].audio
      /\ d.frames[i].slider = "none"

\* The page shows the restriction banner in a frame or a restriction text
\* in the main document.
ShowsRestriction(d) ==
    \/ is_access_restricted_page(d)
    \/ \E i \in DOMAIN d.frames : ~d.frames[i].detached /\ d.frames[i].title = "restricted"

\* C1 (as claimed): on a page that shows a restriction and holds a
\* challenge container without audio toggle and slider, no solve attempt,
\* DataDome audio or CanLII audio/text, is started unless a cooldown has run
\* in this recovery, whichever way the recovery was entered.
C1_NoSolveOnRestrictedPage ==
    (rpc \in {"dd_attempt", "canlii_attempt"} /\ ShowsRestriction(dom)
       /\ HasStrippedContainer(dom)) => cooled

\* C2 (as claimed): whenever a readable frame holds the challenge container
\* and neither the audio toggle nor a slider control,
\* is_datadome_access_restricted returns True, in canada_law_scrapper.py as
\* in boards_tribunals_links.py.
C2_StrippedContainerIsRestricted ==
    (verdict # NoVerdict /\ HasStrippedContainer(dom)) =>
      /\ verdict.is_datadome_access_restricted
      /\ verdict.boards

\* The page without its frames that raise.
IsReadable(f) == ~f.detached
Readable(d) == Dom(d.restriction_text, d.canlii, SelectSeq(d.frames, IsReadable))

\* C20 (as claimed): a frame that raises is skipped and every other frame
\* is still examined: is_datadome_captcha finds a challenge, and
\* is_datadome_access_restricted a restriction, on a page exactly when it
\* does so on the same page without the frames that raise; is_captcha_page
\* likewise.
C20_FailingFrameIsSkipped ==
    verdict # NoVerdict =>
      /\ (verdict.is_datadome_captcha # 0) = (is_datadome_captcha(Readable(dom)) # 0)
      /\ verdict.is_datadome_access_restricted
           = is_datadome_access_restricted(Readable(dom))
      /\ verdict.is_captcha_page = is_captcha_page(Readable(dom))

(***************************************************************************)
(* Properties of the audio solvers and of the cooldown                     *)
(***************************************************************************)
\* C11 (as claimed): in an attempt of either audio solver, a transcript
\* whose digit string is not exactly six digits long (empty and failed
\* transcriptions included) is never typed into a response field, the
\* verify / ok control is not clicked, and the attempt returns False.
C11_OnlySixDigitsSubmitted ==
    (apc \in {"transcribed", "filled", "returned"}
       /\ (numbers.none \/ Len(numbers.digits) # DigitsRequired)) =>
      /\ filled = ""
      /\ ~clicked
      /\ solve_result # "True"

C27_AnchorAfterCooldown == cpc = "navigated" => shown = "START_URL"

(***************************************************************************)
(* Properties of the recovery                                              *)
(***************************************************************************)
\* C13 (as claimed): when handle_captcha_interruption has run its second
\* cooldown window because the start page was still restricted after the
\* first, and the start page is restricted after the second window too, it
\* does not return True: the interruption is not reported as resolved.
C13_StillRestrictedNotResolved ==
    [][/\ \/ /\ rpc = "hci_dd_cooled"
             /\ is_datadome_access_restricted(dom)
             /\ is_datadome_access_restricted(dom')
          \/ /\ rpc = "hci_body_cooled"
             /\ is_access_restricted_page(dom)
             /\ is_access_restricted_page(dom')
       => ~(rpc' = "idle" /\ result' = "True")]_vars

\* C14: when the DataDome loop has four timeouts in a row behind it and the
\* attempt just made has timed out as well, on a page
\* is_datadome_access_restricted reports as restricted, the next step runs
\* the cooldown and starts the function over (or ends the call, when the
\* navigation after the cooldown raises): no further attempt comes before
\* the cooldown.
C14_FifthTimeoutStartsCooldown ==
    [][(/\ rpc = "dd_None"
        /\ consecutive_timeouts = TimeoutLimit - 1
        /\ is_datadome_access_restricted(dom))
       => /\ cooled'
          /\ \/ rpc' = "solve" /\ left_by' = "timeout_pattern"
             \/ rpc' \in {"raised", "idle"} /\ result' # "True"]_vars

\* C14 witness: the loop was left for a cooldown after the fifth timeout.
C14_Witness ==
    /\ left_by = "timeout_pattern"
    /\ rpc = "solve"
    /\ cooled

\* C15: in both solver loops the attempt index never exceeds
\* MAX_CAPTCHA_ATTEMPTS, and a loop whose MAX_CAPTCHA_ATTEMPTS attempts all
\* failed ends there: solve_captcha_automatically returns False.
C15_AttemptsCapped ==
    /\ [](attempt <= MAX_CAPTCHA_ATTEMPTS)
    /\ [][(rpc \in {"dd_loop", "canlii_loop"} /\ attempt = MAX_CAPTCHA_ATTEMPTS)
           => /\ result' = "False"
              /\ rpc' \notin {"dd_loop", "dd_attempt", "canlii_loop", "canlii_attempt"}
              /\ left_by' = "exhausted"]_vars

\* C15 witness: a loop has used up its attempts and the function has
\* returned False.
C15_Witness ==
    /\ left_by = "exhausted"
    /\ result = "False"
    /\ rpc = "manual"

\* C16 (as claimed): whatever pages the portal serves, a call of
\* solve_captcha_automatically comes to its end: it returns True (the
\* recovery is over) or False (its caller waits for a manual solve).
C16_SolveReturnsEventually ==
    (rpc = "solve") ~> (rpc \in {"idle", "manual"})

\* C17: a recovery started by handle_captcha_interruption never ends in an
\* exception that goes up to its caller; when one of its navigations or a
\* navigation of the solver it called raises, it returns False and the
\* crawl is free to go to the next document.
C17_InterruptionNeverRaises ==
    /\ [](entry = "hci" => rpc # "raised")
    /\ [][((HciException \/ GotoRaises) /\ entry = "hci")
           => (rpc' = "idle" /\ result' = "False")]_vars

\* C17 witness: handle_captcha_interruption has returned False; it does so
\* on an exception only.
C17_Witness ==
    /\ entry = "hci"
    /\ rpc = "idle"
    /\ result = "False"
    /\ cooled

\* C18: when an attempt of the DataDome loop has failed (False or a
\* timeout) and is_datadome_access_restricted reports the page as
\* restricted, the next step leaves the loop, runs the cooldown and starts
\* solve_captcha_automatically over on the start page (or ends the call,
\* when the navigation to the start page raises): no attempt comes in
\* between.
C18_RestrictionEndsTheLoop ==
    [][(rpc \in {"dd_False", "dd_None"} /\ is_datadome_access_restricted(dom))
       => /\ cooled'
          /\ \/ /\ rpc' = "solve"
                /\ attempt' = 0
                /\ left_by' \in {"restricted", "timeout_pattern"}
             \/ rpc' \in {"raised", "idle"} /\ result' # "True"]_vars

\* C18 witness: the loop was left for a cooldown because the page was found
\* restricted after a failed attempt.
C18_Witness ==
    /\ left_by = "restricted"
    /\ rpc = "solve"
    /\ attempt = 0
    /\ cooled

C24_BodyRestrictionCoolsFirst ==
    (/\ rpc \in {"dd_attempt", "canlii_attempt"}
     /\ attempt = 1
     /\ is_access_restricted_page(dom)
     /\ is_datadome_captcha(dom) = 0
     /\ ~dom.canlii) => cooled

\* A page with a readable frame that holds the challenge container and the
\* audio toggle, and without restriction text: no frame with the
\* restricted title, no unusual-activity warning in a frame without audio
\* toggle.
AudioChallenge(d) ==
    /\ \E i \in DOMAIN d.frames :
          ~d.frames[i].detached /\ d.frames[i].container /\ d.frames[i].audio
    /\ \A i \in DOMAIN d.frames :
          d.frames[i].detached
            \/ /\ d.frames[i].title # "restricted"
               /\ d.frames[i].warning = "unusual" => d.frames[i].audio

\* C25: on every such page is_datadome_access_restricted is False and
\* is_datadome_captcha reports a frame; and solve_captcha_automatically on
\* such a page goes to the DataDome loop without a cooldown.
C25_AudioChallengeIsSolved ==
    /\ \A d \in AllDoms :
         AudioChallenge(d) =>
           ~is_datadome_access_restricted(d) /\ is_datadome_captcha(d) # 0
    /\ [][(rpc = "solve" /\ AudioChallenge(dom))
            => (rpc' = "dd_loop" /\ cooled' = cooled /\ dom' = dom)]_vars

\* C25 witness: solve_captcha_automatically has entered the DataDome loop
\* on the audio challenge, no cooldown before.
C25_Witness ==
    /\ rpc = "dd_loop"
    /\ attempt = 0
    /\ dom = AudioChallengePage
    /\ ~cooled

(***************************************************************************)
(* Properties of the text-CAPTCHA loop                                     *)
(***************************************************************************)
\* C26: in the text-CAPTCHA loop every attempt that read nothing from the
\* widget or whose answer was rejected is followed by a reload before the
\* next attempt starts, and no widget is answered twice without a reload in
\* between: at the head of the loop the widget is fresh, and a widget never
\* holds a second answer.
C26_ReloadBeforeNextAttempt ==
    /\ widget.answers <= 1
    /\ tpc = "loop" => widget = FreshWidget

(***************************************************************************)
(* Properties of the tracking store and of document processing             *)
(***************************************************************************)
KeyOf(d) == doc_key(d.prefix, d.href)

\* The keys the properties quantify over: every document of the listing and
\* every key an initial file may hold.
KeysOfInterest == { KeyOf(d) : d \in Docs } \cup InitKeyPool

InLegacyBucket(tracking, key) ==
    LET pk == Get(tracking, "processed_keys", << >>)
    IN \E i \in DOMAIN pk : pk[i].isstr /\ pk[i].key = key

IsPrefix(a, b) == Len(a) <= Len(b) /\ SubSeq(b, 1, Len(a)) = a

\* C3: mark_as_processed is idempotent. Marking any key once or twice gives
\* the same ledger, with exactly one processed_documents entry for the key,
\* or none added when the key is in the legacy processed_keys bucket; and no
\* ledger the program holds or has written lists a key twice.
C3_MarkIdempotent ==
    /\ pc # "down" =>
         \A key \in KeysOfInterest :
           LET info == DocInfo(key, "/x", "x.pdf")
               once == mark_as_processed(tracking_data, info)
               twice == mark_as_processed(once, info)
           IN /\ twice = once
              /\ EntriesFor(tracking_data, key) <= 1
              /\ IF InLegacyBucket(tracking_data, key)
                   THEN once = tracking_data
                   ELSE EntriesFor(once, key) = 1
    /\ file.kind = "json" => \A key \in KeysOfInterest : EntriesFor(file.data, key) <= 1

\* C3 witness: a document marked in this history is met again, and the
\* ledger holds one entry for it.
C3_Witness ==
    /\ pc = "doc"
    /\ DocRef \in marked
    /\ is_already_processed(tracking_data, DocKey)
    /\ EntriesFor(tracking_data, DocKey) = 1

\* C4 (as claimed): wherever the process stops, a restart reports complete
\* every document that was marked complete before the one in flight.
C4_CrashLosesAtMostInFlight ==
    \A d \in marked : doc_key(d[1], d[2]) \in PersistedKeys(file)

\* C5: persistence is synchronous with marking. Right after a mark whose
\* write went through the file holds exactly the in-memory ledger, and
\* between two documents the persisted keys are the in-memory keys.
C5_SynchronousPersistence ==
    /\ last = "mark_saved" => file = JsonFile(tracking_data)
    /\ pc \in {"rows", "doc", "row_end"} => PersistedKeys(file) = CompleteKeys(tracking_data)

\* C5 witness: a second key has just been marked and written.
C5_Witness ==
    /\ last = "mark_saved"
    /\ Len(tracking_data["processed_documents"]) >= 2
    /\ file = JsonFile(tracking_data)

\* The keys reported complete: by the ledger in memory while the process
\* runs, by what a restart would load while it is down.
Known == IF pc = "down" THEN PersistedKeys(file) ELSE CompleteKeys(tracking_data)

\* processed_documents of a ledger is a flat list of key strings.
LegacyFormat(d) ==
    /\ Get(d, "processed_documents", << >>) # << >>
    /\ Get(d, "processed_documents", << >>)[1].isstr

ListedKeys(f) ==
    IF f.kind # "json" THEN {}
    ELSE LET pd == Get(f.data, "processed_documents", << >>)
             pk == Get(f.data, "processed_keys", << >>)
         IN { pd[i].key : i \in { j \in DOMAIN pd : pd[j].isstr } } \cup
            { pk[i].key : i \in { j \in DOMAIN pk : pk[j].isstr } }

\* C7 (as claimed): after load_tracking_data every key string the file
\* listed, in a flat processed_documents list or in processed_keys, is
\* reported complete.
C7_LegacyKeysStayComplete ==
    last = "loaded" => \A key \in ListedKeys(file) : is_already_processed(tracking_data, key)

\* C8: meeting a complete key again has no side effects.
\* process_legislation_document on a complete key leaves the browser, the
\* bucket, both ledger files and the in-memory ledger as they are, and a
\* row whose documents are all complete is passed without navigation.
C8_SkipHasNoEffects ==
    [][ /\ (pc = "doc" /\ pc' # "down" /\ is_already_processed(tracking_data, DocKey)) =>
              /\ page' = page
              /\ s3' = s3
              /\ file' = file
              /\ skipped_file' = skipped_file
              /\ tracking_data' = tracking_data
              /\ pc' \in {"doc", "row_end"}
        /\ (pc = "rows" /\ pc' # "down" /\ row <= Len(items_to_process)
              /\ RowComplete(tracking_data, row)) =>
              /\ page' = page
              /\ s3' = s3
              /\ file' = file
              /\ tracking_data' = tracking_data
              /\ row' = row + 1 ]_vars

\* C8 witness: process_legislation_document has just skipped a complete
\* key that sits in the legacy bucket.
C8_Witness ==
    /\ last = "skipped"
    /\ InLegacyBucket(tracking_data, "main_/a")
    /\ row = 1

\* C21: a ledger write that fails ends nothing: mark_as_processed returns
\* (the crawl is at the next document or at the end of the row), the key is
\* complete in the in-memory ledger, and a key complete in memory stays so
\* as long as the process runs.
C21_WriteFailureNotFatal ==
    [][/\ DocMarkWriteFails
          => /\ is_already_processed(tracking_data', DocKey)
             /\ pc' \in {"doc", "row_end"}
       /\ (pc # "down" /\ pc' # "down")
          => \A d \in Docs :
               is_already_processed(tracking_data, doc_key(d.prefix, d.href))
                 => is_already_processed(tracking_data', doc_key(d.prefix, d.href))]_vars

\* C21 witness: the crawl goes on with a key that is complete in memory and
\* that the file does not hold.
C21_Witness ==
    /\ pc \in {"doc", "row_end", "rows"}
    /\ \E d \in Docs :
         /\ is_already_processed(tracking_data, doc_key(d.prefix, d.href))
         /\ doc_key(d.prefix, d.href) \notin PersistedKeys(file)

C30_OneSkipEntryPerHref ==
    /\ [](\A i, j \in DOMAIN load_skipped_data(skipped_file) :
            load_skipped_data(skipped_file)[i].href = load_skipped_data(skipped_file)[j].href
              => i = j)
    /\ [][last' \in {"skip_saved", "skip_known", "skip_failed"} =>
            LET href == IF pc = "rows" THEN items_to_process[row].main.href ELSE Doc.href
                before == load_skipped_data(skipped_file)
            IN /\ (\E i \in DOMAIN before : before[i].href = href)
                    => skipped_file' = skipped_file /\ last' = "skip_known"
               /\ pc' \in {"rows", "doc", "row_end"}]_vars

\* C30 witness: a call for an href that the file already held has returned,
\* the file holding that href once.
C30_Witness ==
    /\ last = "skip_known"
    /\ Cardinality({ i \in DOMAIN load_skipped_data(skipped_file) :
                       load_skipped_data(skipped_file)[i].href = "/r" }) = 1

\* C23 (as claimed): when the recovery for a document has failed and
\* process_legislation_document gives the document up, the files hold a
\* record of it when the crawl moves on: an entry for its href in the skip
\* ledger or an entry for its key in the completion ledger file.
C23_UnresolvedIsRecorded ==
    [][last' = "captcha_unrecovered" =>
         \/ \E i \in DOMAIN load_skipped_data(skipped_file') :
               load_skipped_data(skipped_file')[i].href = Doc.href
         \/ DocKey \in PersistedKeys(file')
         \/ file' # file
         \/ skipped_file' # skipped_file]_vars

\* C28: when handle_captcha_interruption has returned True the caller
\* navigates again to the URL it was working on before it extracts
\* anything: the rows of a listing are never read from the page the recovery
\* left behind.
C28_ResumesWhereInterrupted ==
    (pc = "scan" /\ last = "recovered") => page = category_url

\* C9: a key enters the ledger only after upload_to_s3 returned True in the
\* same call. While the process runs the ledger, in memory and on disk,
\* changes only in mark_as_processed reached with a confirmed upload, and
\* then by the key of the document in hand; a failed extraction, PDF
\* rendering or upload leaves both unchanged.
C9_MarkOnlyAfterUpload ==
    [][ (pc # "down" /\ pc' # "down"
           /\ << tracking_data', file' >> # << tracking_data, file >>) =>
          /\ pc = "mark"
          /\ upload_ok
          /\ s3_key_of(Doc.citation, Doc.title) \in s3
          /\ CompleteKeys(tracking_data') = CompleteKeys(tracking_data) \cup {DocKey} ]_vars

\* C9 witness: the upload of the document in hand was confirmed and its
\* key is about to enter the ledger.
C9_Witness ==
    /\ pc = "mark"
    /\ upload_ok
    /\ ~is_already_processed(tracking_data, DocKey)

\* C10 (as amended): in canada_law_scrapper.py a document is reported
\* complete only if that very reference, role and href, was marked or its
\* key was in the ledger file before the first run; marking "/a" as a main
\* document does not complete "/a" as an enabling statute.
C10_RolesKeepKeysApart ==
    pc # "down" =>
      \A d \in Docs :
        is_already_processed(tracking_data, KeyOf(d)) =>
          \/ << d.prefix, d.href >> \in marked
          \/ KeyOf(d) \in InitKeyPool

\* C10 witness: "/a" is complete as a main document and is met as an
\* enabling statute, for which it is not complete.
C10_Witness ==
    /\ pc = "doc"
    /\ DocRef = << "enabling_statute", "/a" >>
    /\ << "main", "/a" >> \in marked
    /\ is_already_processed(tracking_data, doc_key("main", "/a"))
    /\ ~is_already_processed(tracking_data, DocKey)

\* C10 (as claimed, for both scripts it cites): once a document is marked,
\* the same href under another role has a different key, under the key of
\* canada_law_scrapper.py and under the key of legislation_links.py.
C10_DifferentRolesDifferentKeys ==
    \A d \in Docs, e \in Docs :
      (<< d.prefix, d.href >> \in marked /\ e.href = d.href /\ e.prefix # d.prefix) =>
        /\ doc_key(e.prefix, e.href) # doc_key(d.prefix, d.href)
        /\ doc_key_legislation_links(e.prefix, e.href)
             # doc_key_legislation_links(d.prefix, d.href)

====
